---------------------------- MODULE Spec2Model ----------------------------
(***************************************************************************)
(* Model of presentation_controller.py (class PresentationSystem).         *)
(*                                                                         *)
(* Two execution contexts share one object:                                *)
(*   - the Tk main loop (UI context): key bindings, callbacks queued with  *)
(*     root.after(0, ...), handle_command and the presentation methods;    *)
(*   - the BLE thread (link context): maintain_ble_connection.             *)
(* Time is counted in ticks; TicksPerUnit ticks make one second.           *)
(***************************************************************************)
EXTENDS Integers, Sequences, FiniteSets, TLC

VARIABLES
    \* ---- UI context ----
    list_size,          \* presentation_list.size()
    selection,          \* presentation_list.curselection(), as a set of indices
    presentation_mode,  \* self.presentation_mode
    current_slide,      \* self.current_slide
    slides,             \* self.slides (list of page numbers)
    slide_images,       \* self.slide_images: <<>> while the attribute is unset, else <<list>>
    last_command_time,  \* self.last_command_time: <<>> while unset (hasattr), else <<t>>
    status_bar,         \* text of self.status_bar
    ble_status,         \* text of self.ble_status
    last_log,           \* what handle_command logged for the last command it was given
    history,            \* the two entries of last_log before the current one
    key,                \* the last key event the bindings handled, as its command
    now,                \* time.time(), in ticks
    after_queue,        \* callbacks posted with root.after(0, ...), oldest first
    \* ---- link context ----
    connected,          \* self.connected
    peripheral,         \* self.peripheral: "None", "open" or "closed" (disconnect() called)
    pc,                 \* position of the BLE thread in maintain_ble_connection
    retry,              \* loop variable of the connect retry loop
    notify_retry,       \* loop variable of the enable-notifications retry loop
    events,             \* log lines, transport calls and sleeps of the current cycle
    wait_result         \* outcome of the last waitForNotifications call: the payload
                        \* handed to the delegate, "timeout" or the kind of error

uiVars == <<list_size, selection, presentation_mode, current_slide, slides,
            slide_images, last_command_time, status_bar, ble_status, last_log,
            history, key, now>>
linkVars == <<connected, peripheral, pc, retry, notify_retry, events, wait_result>>
vars == <<uiVars, after_queue, linkVars>>

---------------------------------------------------------------------------
\* Bounds of the model
MaxItems == 2
MaxSlides == 2
MaxTime == 6
MaxQueue == 2
TicksPerUnit == 2

\* Program constants
max_retries == 3
max_notify_retries == 3
DEBOUNCE_SECONDS == 1

DebounceWindow == DEBOUNCE_SECONDS * TicksPerUnit

Commands == {"UP", "DOWN", "SELECT"}
\* decoded notification payloads: the three tokens and any other text
Payloads == Commands \cup {"OTHER"}

Pages(k) == [i \in 1..k |-> i - 1]

\* outcomes of the conversion pipeline inside load_presentation
Conversions ==
    [kind : {"ok"}, pages : 0..MaxSlides]
    \cup [kind : {"fail_early"}, pages : {0}]
    \cup [kind : {"fail_pages"}, pages : 0..MaxSlides]

\* outcomes of drawing a slide in show_current_slide
Renders == {"ok", "error"}

---------------------------------------------------------------------------
\* What the UI context logs for one call: the time handle_command was given, its
\* debounce verdict, and the lines logged by start_presentation
\* ("Starting presentation"), load_presentation ("Converted n slides" or "Error
\* loading presentation") and end_presentation ("Ending presentation"); arrived
\* is the time the command was received.
NewLog(t, verdict) ==
    [time |-> t, verdict |-> verdict, load |-> "none",
     pages |-> 0, started |-> <<>>, ended |-> FALSE, arrived |-> t]

\* The UI-side fields of the object, as one record the methods transform.
ui ==
    [selection |-> selection, presentation_mode |-> presentation_mode,
     current_slide |-> current_slide, slides |-> slides,
     slide_images |-> slide_images, last_command_time |-> last_command_time,
     status_bar |-> status_bar, last_log |-> last_log]

Images(u) == IF u.slide_images = <<>> THEN <<>> ELSE u.slide_images[1]

show_current_slide(u, render) ==
    IF 0 <= u.current_slide /\ u.current_slide < Len(Images(u))
    THEN [u EXCEPT !.status_bar =
              IF render = "ok" THEN "Slide" ELSE "Error displaying slide"]
    ELSE u

show_next_slide(u, render) ==
    IF u.current_slide < Len(u.slides) - 1
    THEN show_current_slide([u EXCEPT !.current_slide = @ + 1], render)
    ELSE u

show_previous_slide(u, render) ==
    IF u.current_slide > 0
    THEN show_current_slide([u EXCEPT !.current_slide = @ - 1], render)
    ELSE u

end_presentation(u) ==
    [u EXCEPT !.presentation_mode = FALSE, !.status_bar = "Presentation ended",
              !.last_log.ended = TRUE]

load_presentation(u, conv, render) ==
    LET cleared == [u EXCEPT !.slides = <<>>]
        loaded == [cleared EXCEPT !.slide_images = <<Pages(conv.pages)>>,
                                  !.slides = Pages(conv.pages)]
        failed(v) == end_presentation(
                        [v EXCEPT !.status_bar = "Error loading presentation",
                                  !.last_log.load = "error"])
        converted == [loaded EXCEPT !.last_log.load = "converted",
                                    !.last_log.pages = conv.pages]
    IN  CASE conv.kind = "ok" ->
               IF converted.slides # <<>>
               THEN show_current_slide([converted EXCEPT !.current_slide = 0],
                                       render)
               ELSE converted
          [] conv.kind = "fail_early" -> failed(cleared)
          [] conv.kind = "fail_pages" -> failed(loaded)

\* curselection()[0]
Current(u) == CHOOSE i \in u.selection : \A j \in u.selection : i <= j

\* start_presentation without the test of the selection
start_presentation_unguarded(u, conv, render) ==
    load_presentation(
        [u EXCEPT !.status_bar = "Starting", !.presentation_mode = TRUE,
                  !.last_log.started = <<0>>],
        conv, render)

start_presentation(u, conv, render) ==
    IF u.selection # {}
    THEN load_presentation(
             [u EXCEPT !.status_bar = "Starting", !.presentation_mode = TRUE,
                       !.last_log.started = <<Current(u)>>],
             conv, render)
    ELSE u

\* route_command with DOWN not stopped at the last item
route_command_unclamped(v, command, conv, render) ==
    IF ~v.presentation_mode
    THEN CASE command = "UP" ->
                IF v.selection # {} /\ Current(v) > 0
                THEN [v EXCEPT !.selection = {Current(v) - 1}]
                ELSE v
           [] command = "DOWN" ->
                IF v.selection # {}
                THEN [v EXCEPT !.selection = {Current(v) + 1}]
                ELSE v
           [] command = "SELECT" -> start_presentation(v, conv, render)
           [] OTHER -> v
    ELSE CASE command = "UP" -> show_previous_slide(v, render)
           [] command = "DOWN" -> show_next_slide(v, render)
           [] command = "SELECT" -> end_presentation(v)
           [] OTHER -> v

\* route_command with UP and DOWN moving the list selection in both modes
route_command_modeless(v, command, conv, render) ==
    CASE command = "UP" ->
            IF v.selection # {} /\ Current(v) > 0
            THEN [v EXCEPT !.selection = {Current(v) - 1}]
            ELSE v
      [] command = "DOWN" ->
            IF v.selection # {} /\ Current(v) < list_size - 1
            THEN [v EXCEPT !.selection = {Current(v) + 1}]
            ELSE v
      [] command = "SELECT" ->
            IF ~v.presentation_mode
            THEN start_presentation(v, conv, render)
            ELSE end_presentation(v)
      [] OTHER -> v

\* handle_command, after the debounce: the branch on presentation_mode and command
route_command(v, command, conv, render) ==
    IF ~v.presentation_mode
    THEN CASE command = "UP" ->
                IF v.selection # {} /\ Current(v) > 0
                THEN [v EXCEPT !.selection = {Current(v) - 1}]
                ELSE v
           [] command = "DOWN" ->
                IF v.selection # {} /\ Current(v) < list_size - 1
                THEN [v EXCEPT !.selection = {Current(v) + 1}]
                ELSE v
           [] command = "SELECT" -> start_presentation(v, conv, render)
           [] OTHER -> v
    ELSE CASE command = "UP" -> show_previous_slide(v, render)
           [] command = "DOWN" -> show_next_slide(v, render)
           [] command = "SELECT" -> end_presentation(v)
           [] OTHER -> v

\* handle_command with the debounce test written <= instead of <
handle_command_inclusive(u, command, t, conv, render) ==
    IF u.last_command_time # <<>> /\ t - u.last_command_time[1] <= DebounceWindow
    THEN [u EXCEPT !.last_log = NewLog(t, "ignored")]
    ELSE route_command(
             [u EXCEPT !.last_command_time = <<t>>,
                       !.last_log = NewLog(t, "accepted")],
             command, conv, render)

handle_command(u, command, t, conv, render) ==
    IF u.last_command_time # <<>> /\ t - u.last_command_time[1] < DebounceWindow
    THEN [u EXCEPT !.last_log = NewLog(t, "ignored")]
    ELSE route_command(
             [u EXCEPT !.last_command_time = <<t>>,
                       !.last_log = NewLog(t, "accepted")],
             command, conv, render)

\* The UI fields take the values of record u; history keeps the two decisions before it.
SetUi(u) ==
    /\ selection' = u.selection
    /\ presentation_mode' = u.presentation_mode
    /\ current_slide' = u.current_slide
    /\ slides' = u.slides
    /\ slide_images' = u.slide_images
    /\ last_command_time' = u.last_command_time
    /\ status_bar' = u.status_bar
    /\ last_log' = u.last_log
    /\ history' = LET h == Append(history, [time |-> last_log.time,
                                             verdict |-> last_log.verdict])
                  IN  IF Len(h) > 2 THEN Tail(h) ELSE h

\* one call of handle_command, for a command received at time arrived
Dispatch(command, arrived) ==
    \E u \in {handle_command(ui, command, now, conv, render) :
                  conv \in Conversions, render \in Renders} :
        SetUi([u EXCEPT !.last_log.arrived = arrived])

---------------------------------------------------------------------------
\* UI context

\* time passes
Tick ==
    /\ now < MaxTime
    /\ now' = now + 1
    /\ UNCHANGED <<list_size, selection, presentation_mode, current_slide, slides,
                   slide_images, last_command_time, status_bar, ble_status,
                   last_log, history, key, after_queue, linkVars>>

\* key bindings that act only while the link is connected
KeyPressWhenConnected ==
    /\ connected
    /\ \E command \in Commands :
           /\ Dispatch(command, now)
           /\ key' = command
           /\ UNCHANGED <<list_size, ble_status, now, after_queue, linkVars>>

\* <Up>, <Down>, <Return> key bindings
KeyPress ==
    \E command \in Commands :
        /\ Dispatch(command, now)
        /\ key' = command
        /\ UNCHANGED <<list_size, ble_status, now, after_queue, linkVars>>

\* a call of end_presentation by itself, in whatever mode the object is in
EndCall ==
    /\ SetUi(end_presentation([ui EXCEPT !.last_log = NewLog(now, "none")]))
    /\ UNCHANGED <<list_size, ble_status, key, now, after_queue, linkVars>>

\* the main loop runs the oldest callback posted with root.after(0, ...)
RunAfter ==
    /\ after_queue # <<>>
    /\ after_queue' = Tail(after_queue)
    /\ LET item == Head(after_queue)
       IN  IF item.kind = "command"
           THEN /\ Dispatch(item.command, item.arrived)
                /\ UNCHANGED <<list_size, ble_status, key, now, linkVars>>
           ELSE /\ ble_status' = item.text
                /\ UNCHANGED <<list_size, selection, presentation_mode,
                               current_slide, slides, slide_images,
                               last_command_time, status_bar, last_log, history,
                               key, now, linkVars>>

---------------------------------------------------------------------------
\* Link context: maintain_ble_connection, one action per step of the thread.

Log(e) == events' = Append(events, e)

\* root.after with the callbacks still pending cancelled
PostLatestOnly(item) ==
    /\ Len(after_queue) < MaxQueue
    /\ after_queue' = <<item>>

\* root.after(0, callback): the callback joins the main loop's queue
Post(item) ==
    /\ Len(after_queue) < MaxQueue
    /\ after_queue' = Append(after_queue, item)

\* while True: try: if not self.connected: for retry in range(max_retries)
LoopTop ==
    /\ pc = "loop_top"
    /\ IF ~connected
       THEN /\ pc' = "connect_random"
            /\ retry' = 0
            /\ events' = <<>>
            /\ wait_result' = "none"
       ELSE UNCHANGED <<pc, retry, events, wait_result>>
    /\ UNCHANGED <<connected, peripheral, notify_retry, uiVars, after_queue>>

\* ConnectRandom without the fallback to the public address type
ConnectRandomNoFallback ==
    /\ pc = "connect_random"
    /\ \E ok \in BOOLEAN :
          IF ok
          THEN /\ peripheral' = "open"
               /\ events' = events \o <<"attempt", "connect_random_ok">>
               /\ pc' = "set_connected"
          ELSE /\ peripheral' = peripheral
               /\ events' = events \o <<"attempt", "connect_random_fail">>
               /\ pc' = "attempt_failed"
    /\ UNCHANGED <<connected, retry, notify_retry, wait_result, uiVars, after_queue>>

\* logger.info("Connecting ..."); btle.Peripheral(mac, addrType=ADDR_TYPE_RANDOM)
ConnectRandom ==
    /\ pc = "connect_random"
    /\ \E ok \in BOOLEAN :
          IF ok
          THEN /\ peripheral' = "open"
               /\ events' = events \o <<"attempt", "connect_random_ok">>
               /\ pc' = "set_connected"
          ELSE /\ peripheral' = peripheral
               /\ events' = events \o <<"attempt", "connect_random_fail">>
               /\ pc' = "connect_public"
    /\ UNCHANGED <<connected, retry, notify_retry, wait_result, uiVars, after_queue>>

\* except: btle.Peripheral(mac, addrType=ADDR_TYPE_PUBLIC)
ConnectPublic ==
    /\ pc = "connect_public"
    /\ \E ok \in BOOLEAN :
          IF ok
          THEN /\ peripheral' = "open"
               /\ Log("connect_public_ok")
               /\ pc' = "set_connected"
          ELSE /\ peripheral' = peripheral
               /\ Log("connect_public_fail")
               /\ pc' = "attempt_failed"
    /\ UNCHANGED <<connected, retry, notify_retry, wait_result, uiVars, after_queue>>

\* SetConnected without the break: the for loop goes on after a success
SetConnectedNoBreak ==
    /\ pc = "set_connected"
    /\ connected' = TRUE
    /\ Log("connected")
    /\ IF retry < max_retries - 1
       THEN retry' = retry + 1 /\ pc' = "connect_random"
       ELSE retry' = retry /\ pc' = "post_connected"
    /\ UNCHANGED <<peripheral, notify_retry, wait_result, uiVars, after_queue>>

\* self.connected = True; logger.info("Connected!"); break; if self.connected:
SetConnected ==
    /\ pc = "set_connected"
    /\ connected' = TRUE
    /\ Log("connected")
    /\ pc' = "post_connected"
    /\ UNCHANGED <<peripheral, retry, notify_retry, wait_result, uiVars, after_queue>>

\* AttemptFailed with the test retry < max_retries: it sleeps after the last
\* attempt too and the loop ends without raising
AttemptFailedOffByOne ==
    /\ pc = "attempt_failed"
    /\ events' = events \o <<"attempt_failed", "sleep_retry">>
    /\ retry' = retry + 1
    /\ pc' = IF retry + 1 < max_retries THEN "connect_random" ELSE "loop_top"
    /\ UNCHANGED <<connected, peripheral, notify_retry, wait_result, uiVars,
                   after_queue>>

\* except Exception: logger.error(...); sleep(retry_delay) or raise
AttemptFailed ==
    /\ pc = "attempt_failed"
    /\ IF retry < max_retries - 1
       THEN /\ events' = events \o <<"attempt_failed", "sleep_retry">>
            /\ retry' = retry + 1
            /\ pc' = "connect_random"
       ELSE /\ Log("attempt_failed")
            /\ retry' = retry
            /\ pc' = "exc_flag"
    /\ UNCHANGED <<connected, peripheral, notify_retry, wait_result, uiVars,
                   after_queue>>

\* root.after(0, "Connected" label); sleep(0.5); setDelegate(NotifyDelegate(self))
PostConnected ==
    /\ pc = "post_connected"
    /\ Post([kind |-> "status", text |-> "Connected"])
    /\ Log("post_connected")
    /\ pc' = "discover_service"
    /\ UNCHANGED <<connected, peripheral, retry, notify_retry, wait_result, uiVars>>

\* service = self.peripheral.getServiceByUUID(SERVICE_UUID)
DiscoverService ==
    /\ pc = "discover_service"
    /\ \E ok \in BOOLEAN :
          IF ok
          THEN /\ Log("service_found")
               /\ pc' = "discover_characteristic"
          ELSE /\ Log("service_not_found")
               /\ pc' = "exc_flag"
    /\ UNCHANGED <<connected, peripheral, retry, notify_retry, wait_result, uiVars,
                   after_queue>>

\* service.getCharacteristics(uuid)[0]; getDescriptors(); cccd_handle;
\* for notify_retry in range(max_notify_retries)
DiscoverCharacteristic ==
    /\ pc = "discover_characteristic"
    /\ \E ok \in BOOLEAN :
          IF ok
          THEN /\ Log("characteristic_found")
               /\ notify_retry' = 0
               /\ pc' = "write_cccd"
          ELSE /\ Log("characteristic_not_found")
               /\ notify_retry' = notify_retry
               /\ pc' = "exc_flag"
    /\ UNCHANGED <<connected, peripheral, retry, wait_result, uiVars, after_queue>>

\* self.peripheral.writeCharacteristic(cccd_handle, b"\x01\x00", withResponse=True)
WriteCccd ==
    /\ pc = "write_cccd"
    /\ \E ok \in BOOLEAN :
          IF ok
          THEN /\ events' = events \o <<"write", "write_ok">>
               /\ pc' = "wait"
          ELSE /\ events' = events \o <<"write", "write_fail">>
               /\ pc' = "write_failed"
    /\ UNCHANGED <<connected, peripheral, retry, notify_retry, wait_result, uiVars,
                   after_queue>>

\* WriteFailed that logs the last failure and goes on to the wait loop
WriteFailedSwallowed ==
    /\ pc = "write_failed"
    /\ IF notify_retry < max_notify_retries - 1
       THEN /\ Log("sleep_notify")
            /\ notify_retry' = notify_retry + 1
            /\ pc' = "write_cccd"
       ELSE /\ Log("subscription_failed")
            /\ notify_retry' = notify_retry
            /\ pc' = "wait"
    /\ UNCHANGED <<connected, peripheral, retry, wait_result, uiVars, after_queue>>

\* except Exception: logger.error(...); sleep(0.5) or raise
WriteFailed ==
    /\ pc = "write_failed"
    /\ IF notify_retry < max_notify_retries - 1
       THEN /\ Log("sleep_notify")
            /\ notify_retry' = notify_retry + 1
            /\ pc' = "write_cccd"
       ELSE /\ Log("subscription_failed")
            /\ notify_retry' = notify_retry
            /\ pc' = "exc_flag"
    /\ UNCHANGED <<connected, peripheral, retry, wait_result, uiVars, after_queue>>

\* handleNotification calling handle_command itself, on the BLE thread
HandleNotificationDirect(command) ==
    /\ Dispatch(command, now)
    /\ UNCHANGED <<list_size, ble_status, key, now, after_queue>>

\* NotifyDelegate.handleNotification: data.decode() and root.after(0, handle_command)
HandleNotification(command) ==
    /\ Post([kind |-> "command", command |-> command, arrived |-> now])
    /\ UNCHANGED uiVars

\* a timeout handled as if the transport had raised
WaitTimeoutRaises ==
    /\ wait_result' = "timeout"
    /\ Log("wait_error")
    /\ pc' = "exc_flag"
    /\ UNCHANGED <<after_queue, uiVars>>

\* waitForNotifications(1.0) returns False (no data in time); time.sleep(0.1)
WaitTimeout ==
    /\ wait_result' = "timeout"
    /\ pc' = "wait"
    /\ UNCHANGED <<events, after_queue, uiVars>>

\* while self.connected: waitForNotifications(1.0)
WaitForNotifications ==
    /\ pc = "wait"
    /\ \/ /\ ~connected
          /\ pc' = "loop_top"
          /\ UNCHANGED <<wait_result, events, after_queue, uiVars>>
       \/ /\ connected
          /\ WaitTimeout
       \/ /\ connected              \* a notification whose payload decodes
          /\ \E command \in Payloads :
                /\ HandleNotification(command)
                /\ wait_result' = command
          /\ pc' = "wait"
          /\ UNCHANGED events
       \/ /\ connected              \* a notification whose payload does not decode
          /\ wait_result' = "handler_error"
          /\ Log("handler_error")
          /\ pc' = "exc_flag"
          /\ UNCHANGED <<after_queue, uiVars>>
       \/ /\ connected              \* the transport raises
          /\ wait_result' = "error"
          /\ Log("wait_error")
          /\ pc' = "exc_flag"
          /\ UNCHANGED <<after_queue, uiVars>>
    /\ UNCHANGED <<connected, peripheral, retry, notify_retry>>

\* except Exception as e: logger.error("BLE Error"); self.connected = False
ExcFlag ==
    /\ pc = "exc_flag"
    /\ connected' = FALSE
    /\ Log("ble_error")
    /\ pc' = "exc_post"
    /\ UNCHANGED <<peripheral, retry, notify_retry, wait_result, uiVars, after_queue>>

\* root.after(0, "Disconnected" label)
ExcPost ==
    /\ pc = "exc_post"
    /\ Post([kind |-> "status", text |-> "Disconnected"])
    /\ Log("post_disconnected")
    /\ pc' = "exc_cleanup"
    /\ UNCHANGED <<connected, peripheral, retry, notify_retry, wait_result, uiVars>>

\* if self.peripheral: try: self.peripheral.disconnect() except: pass
ExcCleanup ==
    /\ pc = "exc_cleanup"
    /\ IF peripheral # "None"
       THEN \E ok \in BOOLEAN :
               IF ok
               THEN /\ peripheral' = "closed"
                    /\ Log("disconnect_ok")
                    /\ pc' = "exc_clear"
               ELSE /\ peripheral' = peripheral
                    /\ Log("disconnect_failed")
                    /\ pc' = "exc_clear"
       ELSE /\ peripheral' = peripheral
            /\ events' = events
            /\ pc' = "cooldown"
    /\ UNCHANGED <<connected, retry, notify_retry, wait_result, uiVars, after_queue>>

\* ExcClear that leaves self.peripheral as it is
ExcClearKeepsHandle ==
    /\ pc = "exc_clear"
    /\ peripheral' = peripheral
    /\ Log("handle_cleared")
    /\ pc' = "cooldown"
    /\ UNCHANGED <<connected, retry, notify_retry, wait_result, uiVars, after_queue>>

\* self.peripheral = None
ExcClear ==
    /\ pc = "exc_clear"
    /\ peripheral' = "None"
    /\ Log("handle_cleared")
    /\ pc' = "cooldown"
    /\ UNCHANGED <<connected, retry, notify_retry, wait_result, uiVars, after_queue>>

\* Cooldown after which the thread returns instead of looping
CooldownThenReturn ==
    /\ pc = "cooldown"
    /\ Log("cooldown")
    /\ pc' = "exit"
    /\ UNCHANGED <<connected, peripheral, retry, notify_retry, wait_result, uiVars,
                   after_queue>>

\* time.sleep(2)
Cooldown ==
    /\ pc = "cooldown"
    /\ Log("cooldown")
    /\ pc' = "loop_top"
    /\ UNCHANGED <<connected, peripheral, retry, notify_retry, wait_result, uiVars,
                   after_queue>>

LinkNext ==
    \/ LoopTop \/ ConnectRandom \/ ConnectPublic \/ SetConnected \/ AttemptFailed
    \/ PostConnected \/ DiscoverService \/ DiscoverCharacteristic \/ WriteCccd
    \/ WriteFailed \/ WaitForNotifications \/ ExcFlag \/ ExcPost \/ ExcCleanup
    \/ ExcClear \/ Cooldown

\* The BLE thread with a peripheral in range that completes the set-up: the first
\* connect succeeds, the service and the characteristic are found and the
\* subscription is written; notifications, timeouts and errors follow.
ConnectsAtOnce == ConnectRandom /\ pc' = "set_connected"
ServiceFound == DiscoverService /\ pc' = "discover_characteristic"
CharacteristicFound == DiscoverCharacteristic /\ pc' = "write_cccd"
Subscribes == WriteCccd /\ pc' = "wait"

ReadyLinkNext ==
    \/ LoopTop \/ ConnectsAtOnce \/ SetConnected \/ PostConnected \/ ServiceFound
    \/ CharacteristicFound \/ Subscribes \/ WaitForNotifications \/ ExcFlag
    \/ ExcPost \/ ExcCleanup \/ ExcClear \/ Cooldown

\* the same with a peripheral that sends no other token than UP, DOWN and SELECT
ReceivesCommands == WaitForNotifications /\ wait_result' # "OTHER"

CommandLinkNext ==
    \/ LoopTop \/ ConnectsAtOnce \/ SetConnected \/ PostConnected \/ ServiceFound
    \/ CharacteristicFound \/ Subscribes \/ ReceivesCommands \/ ExcFlag
    \/ ExcPost \/ ExcCleanup \/ ExcClear \/ Cooldown

\* the same with a link that stays up once subscribed (timeouts and commands
\* only), each command arriving after the main loop has run every callback
\* posted before it
ReceivesWhenIdle ==
    /\ ReceivesCommands
    /\ pc' = "wait"
    /\ after_queue' # after_queue => after_queue = <<>>

IdleLinkNext ==
    \/ LoopTop \/ ConnectsAtOnce \/ SetConnected \/ PostConnected \/ ServiceFound
    \/ CharacteristicFound \/ Subscribes \/ ReceivesWhenIdle

\* time passes, up to one debounce window after the start
TickWithinWindow == Tick /\ now < DebounceWindow

---------------------------------------------------------------------------
\* State after __init__: setup_gui, scan_presentations, BLE thread not yet run.
Init ==
    /\ list_size \in 0..MaxItems
    /\ selection = IF list_size > 0 THEN {0} ELSE {}
    /\ presentation_mode = FALSE
    /\ current_slide = 0
    /\ slides = <<>>
    /\ slide_images = <<>>
    /\ last_command_time = <<>>
    /\ status_bar = IF list_size > 0 THEN "Found presentations"
                                     ELSE "No presentations found"
    /\ ble_status = "Disconnected"
    /\ last_log = NewLog(0, "none")
    /\ history = <<>>
    /\ key = "none"
    /\ now = 0
    /\ after_queue = <<>>
    /\ connected = FALSE
    /\ peripheral = "None"
    /\ pc = "loop_top"
    /\ retry = 0
    /\ notify_retry = 0
    /\ events = <<>>
    /\ wait_result = "none"

UiNext == Tick \/ KeyPress

\* the UI context alone, driven from the keyboard
SpecUI == Init /\ [][UiNext]_vars

\* the UI context with direct calls of end_presentation
EndNext == UiNext \/ EndCall

SpecEnd == Init /\ [][EndNext]_vars

\* The BLE thread, with the main loop running what it posts. No key is pressed and
\* the presentations directory is empty, so the states differ by the link alone.
InitLink == Init /\ list_size = 0

SpecLink == InitLink /\ [][LinkNext \/ RunAfter]_vars

\* The BLE thread is scheduled whenever it can run (it is a thread of its own) and
\* the main loop keeps running the callbacks posted to it.
SpecLinkFair == SpecLink /\ WF_vars(LinkNext) /\ WF_vars(RunAfter)

\* The main loop and the BLE thread with a peripheral that completes the set-up,
\* for any list of presentations; time stands still.
DeliveryNext == ReadyLinkNext \/ RunAfter

SpecDelivery == Init /\ [][DeliveryNext]_vars

\* The same with time passing, for an empty list of presentations and a
\* peripheral that sends UP, DOWN and SELECT only.
ArrivalNext == CommandLinkNext \/ RunAfter \/ Tick

SpecArrival == InitLink /\ [][ArrivalNext]_vars

\* The keyboard and the BLE thread together, for an empty list of presentations,
\* over one debounce window.
SharedNext == IdleLinkNext \/ RunAfter \/ TickWithinWindow \/ KeyPress

SpecShared == InitLink /\ [][SharedNext]_vars

Next == UiNext \/ RunAfter \/ LinkNext

Spec == Init /\ [][Next]_vars

---------------------------------------------------------------------------
\* Claims about the UI context (checked under SpecUI)

\* C1: the slide index stays in [0, count) whenever count > 0, and no step changes
\* the slide index while count = 0 (count = len(self.slides)).
C1_SlideIndexWithinCount ==
    [][ /\ Len(slides') > 0 => 0 <= current_slide' /\ current_slide' < Len(slides')
        /\ Len(slides) = 0 /\ Len(slides') = 0 => current_slide' = current_slide
      ]_vars

\* a step in which handle_command ran and logged its decision
Dispatched == <<last_log, history>>' # <<last_log, history>>

\* C2: a dispatched command is accepted if and only if no command was accepted
\* before or at least DebounceWindow has passed since the last accepted one; an
\* accepted command sets last_command_time to its time, a rejected one changes
\* neither last_command_time nor selection, slide cursor, slides or mode.
C2_GlobalDebounce ==
    [][ Dispatched =>
          LET due == \/ last_command_time = <<>>
                     \/ now - last_command_time[1] >= DebounceWindow
          IN  /\ last_log'.time = now
              /\ last_log'.verdict = IF due THEN "accepted" ELSE "ignored"
              /\ due => last_command_time' = <<now>>
              /\ ~due => UNCHANGED <<last_command_time, selection, current_slide,
                                     slides, slide_images, presentation_mode,
                                     status_bar>>
      ]_vars

\* commands at t, t + 0.5 and t + 1.5: accepted, ignored, accepted
C2_Witness ==
    /\ Len(history) = 2
    /\ history[1].verdict = "accepted"
    /\ history[2].verdict = "ignored"
    /\ 2 * (history[2].time - history[1].time) = TicksPerUnit
    /\ last_log.verdict = "accepted"
    /\ 2 * (last_log.time - history[1].time) = 3 * TicksPerUnit

---------------------------------------------------------------------------
\* Claims about the link context (checked under SpecLink and SpecLinkFair)

Count(e) == Cardinality({i \in 1..Len(events) : events[i] = e})
Has(e) == \E i \in 1..Len(events) : events[i] = e

\* every occurrence of e in events is directly followed by one of next; when it is
\* the last entry so far, the thread stands at position at
FollowedBy(e, next, at) ==
    \A i \in 1..Len(events) :
        events[i] = e =>
            IF i = Len(events) THEN pc = at ELSE events[i + 1] \in next

\* every occurrence of e in events directly follows one of prev
Follows(e, prev) ==
    \A i \in 1..Len(events) :
        events[i] = e => i > 1 /\ events[i - 1] \in prev

ErrorPath == {"exc_flag", "exc_post", "exc_cleanup", "exc_clear", "cooldown",
              "loop_top"}
Disconnects == Count("disconnect_ok") + Count("disconnect_failed")

\* C3: once the error handler has set the state to Disconnected, the handle has
\* already been disconnected: the state never reads Disconnected on the error path
\* while self.peripheral is still an open handle.
C3_ReleasedBeforeDisconnected ==
    (Has("ble_error") /\ ~connected) => peripheral # "open"

\* the log of one failed attempt, and of the attempts that connect
FailedAttempt == <<"attempt", "connect_random_fail", "connect_public_fail",
                   "attempt_failed", "sleep_retry">>
GoodAttempts == {<<"attempt", "connect_random_ok">>,
                 <<"attempt", "connect_random_fail", "connect_public_ok">>}
Repeat(seq, k) ==
    [i \in 1..(k * Len(seq)) |-> seq[((i - 1) % Len(seq)) + 1]]
ConnectPhase(k, good) == Repeat(FailedAttempt, k) \o good \o <<"connected">>
IsPrefix(p, q) == Len(p) <= Len(q) /\ SubSeq(q, 1, Len(p)) = p

\* C4: a cycle that reaches the wait loop made k <= max_retries - 1 failed connect
\* attempts, each logged and followed by one retry delay, then one successful
\* attempt and one transition to connected, with no cooldown, disconnect or error
\* handling in between.
C4_ConnectRetry ==
    pc = "wait" =>
        /\ \E k \in 0..(max_retries - 1), good \in GoodAttempts :
              /\ IsPrefix(ConnectPhase(k, good), events)
              /\ Count("connect_public_fail") = k
              /\ Count("attempt_failed") = k
              /\ Count("sleep_retry") = k
        /\ Count("connected") = 1
        /\ Count("cooldown") = 0
        /\ Disconnects = 0
        /\ Count("ble_error") = 0
        /\ connected

\* the wait loop reached after max_retries - 1 failed attempts
C4_Witness == pc = "wait" /\ Count("attempt_failed") = max_retries - 1 /\ connected

\* every attempt of the cycle has failed
Exhausted == Count("connect_public_fail") = max_retries

\* C5: a cycle makes at most max_retries connect attempts; the retry delay is taken
\* only before a further attempt; when all attempts fail the thread goes through
\* the error handler with the state Disconnected, takes one cooldown and stands at
\* the top of the loop; a cycle starts with retry = 0.
C5_RetryBudget ==
    /\ Count("attempt") <= max_retries
    /\ Count("sleep_retry") <= max_retries - 1
    /\ FollowedBy("sleep_retry", {"attempt"}, "connect_random")
    /\ pc \in {"connect_random", "connect_public", "attempt_failed"} =>
           /\ retry = Count("attempt_failed")
           /\ retry < max_retries
    /\ Exhausted =>
           /\ pc \in {"attempt_failed"} \cup ErrorPath
           /\ Count("sleep_retry") = max_retries - 1
           /\ ~connected
           /\ peripheral = "None"
           /\ Count("cooldown") <= 1
           /\ pc = "loop_top" => Count("cooldown") = 1 /\ Count("ble_error") = 1
           /\ Count("cooldown") = 1 => pc = "loop_top"

\* back at the top of the loop after a cycle in which every attempt failed
C5_Witness == Exhausted /\ pc = "loop_top"

\* the state reads Disconnected outside a connect attempt
Disconnected == ~connected /\ pc \in ErrorPath

\* C6: the thread can always take a step (posting waits only while the bounded
\* queue of the model is full), and whenever the error handler has set the state
\* to Disconnected, or the thread has not connected yet, a new cycle of connect
\* attempts starts.
C6_NeverGivesUp ==
    /\ [](ENABLED LinkNext \/ Len(after_queue) = MaxQueue)
    /\ (Disconnected ~> (pc = "connect_random" /\ retry = 0 /\ events = <<>>))

\* Disconnected after a failed cycle, before the cooldown
C6_Witness == pc = "cooldown" /\ Exhausted /\ ~connected

\* C7: each attempt tries the random address type first; the public type is tried
\* exactly when that fails, once; the attempt is logged as failed exactly when both
\* fail; a success is followed by the transition to connected.
C7_AddressTypeFallback ==
    /\ FollowedBy("attempt", {"connect_random_ok", "connect_random_fail"},
                  "connect_random")
    /\ Follows("connect_random_ok", {"attempt"})
    /\ Follows("connect_random_fail", {"attempt"})
    /\ FollowedBy("connect_random_fail",
                  {"connect_public_ok", "connect_public_fail"}, "connect_public")
    /\ Follows("connect_public_ok", {"connect_random_fail"})
    /\ Follows("connect_public_fail", {"connect_random_fail"})
    /\ FollowedBy("connect_random_ok", {"connected"}, "set_connected")
    /\ FollowedBy("connect_public_ok", {"connected"}, "set_connected")
    /\ FollowedBy("connect_public_fail", {"attempt_failed"}, "attempt_failed")
    /\ Follows("attempt_failed", {"connect_public_fail"})
    /\ Count("attempt_failed") = Count("connect_public_fail")
                                   - (IF pc = "attempt_failed" THEN 1 ELSE 0)

\* the wait loop reached after one failed attempt and a fallback that connected
C7_Witness ==
    /\ pc = "wait"
    /\ IsPrefix(ConnectPhase(1, <<"attempt", "connect_random_fail",
                                  "connect_public_ok">>), events)

\* the notification setup of this connection has failed
SubscriptionFailed ==
    \/ Has("service_not_found")
    \/ Has("characteristic_not_found")
    \/ Has("subscription_failed")

\* C8: at most max_notify_retries descriptor writes per connection; the third
\* write failure, or one service or characteristic discovery failure, leads
\* straight to the error handler, which disconnects and clears the handle, sets
\* the state to Disconnected and takes the cooldown before the next cycle; the wait
\* loop is entered only after a successful write.
C8_SubscriptionFailure ==
    /\ Count("write") <= max_notify_retries
    /\ FollowedBy("service_not_found", {"ble_error"}, "exc_flag")
    /\ FollowedBy("characteristic_not_found", {"ble_error"}, "exc_flag")
    /\ FollowedBy("subscription_failed", {"ble_error"}, "exc_flag")
    /\ Follows("subscription_failed", {"write_fail"})
    /\ Has("subscription_failed") <=>
           (Count("write_fail") = max_notify_retries /\ pc # "write_failed")
    /\ SubscriptionFailed =>
           /\ pc \in ErrorPath
           /\ ~Has("write_ok")
           /\ pc = "loop_top" =>
                 /\ ~connected
                 /\ peripheral = "None"
                 /\ Disconnects = 1
                 /\ Count("handle_cleared") = 1
                 /\ Count("cooldown") = 1
    /\ pc = "wait" => events[Len(events)] = "write_ok"

\* back at the top of the loop after the third write failed
C8_Witness ==
    /\ pc = "loop_top"
    /\ Has("subscription_failed")
    /\ Count("write") = max_notify_retries

\* the wait loop of this connection has been left
WaitExited == Has("wait_error") \/ Has("handler_error")

\* C9: after the wait loop is left, the error handler disconnects (a failure of the
\* disconnect is swallowed), clears the handle and takes the cooldown before the
\* loop starts again; a connect attempt starts only while self.peripheral is None.
C9_CleanupOnLeavingActive ==
    /\ pc \in {"connect_random", "connect_public", "attempt_failed"} =>
           peripheral = "None"
    /\ FollowedBy("wait_error", {"ble_error"}, "exc_flag")
    /\ FollowedBy("handler_error", {"ble_error"}, "exc_flag")
    /\ FollowedBy("disconnect_ok", {"handle_cleared"}, "exc_clear")
    /\ FollowedBy("disconnect_failed", {"handle_cleared"}, "exc_clear")
    /\ FollowedBy("handle_cleared", {"cooldown"}, "cooldown")
    /\ FollowedBy("cooldown", {}, "loop_top")
    /\ Has("handle_cleared") => peripheral = "None"
    /\ WaitExited =>
           /\ pc \in ErrorPath
           /\ pc \in {"cooldown", "loop_top"} =>
                 /\ Disconnects = 1
                 /\ Count("handle_cleared") = 1
                 /\ peripheral = "None"
                 /\ ~connected
           /\ pc = "loop_top" => Count("cooldown") = 1

\* back at the top of the loop after a notification handler raised and the
\* disconnect failed
C9_Witness ==
    /\ pc = "loop_top"
    /\ Has("handler_error")
    /\ Has("disconnect_failed")

\* C10: a wait that returns no data leaves the thread in the wait loop with the
\* state connected, the handle open and nothing posted; the wait loop is left only
\* by an error, into the error handler.
C10_TimeoutIsNotAnError ==
    [][ /\ (pc = "wait" /\ wait_result' = "timeout" /\ wait_result # "timeout") =>
              /\ pc' = "wait"
              /\ connected /\ connected'
              /\ peripheral = "open" /\ peripheral' = "open"
              /\ after_queue' = after_queue
              /\ events' = events
        /\ (pc = "wait" /\ pc' # "wait") =>
              /\ pc' = "exc_flag"
              /\ wait_result' \in {"error", "handler_error"}
              /\ events'[Len(events')] \in {"wait_error", "handler_error"}
      ]_vars

\* in the wait loop after a timeout
C10_Witness ==
    pc = "wait" /\ wait_result = "timeout" /\ connected /\ peripheral = "open"

---------------------------------------------------------------------------
\* Claims about payloads, sessions and routing

\* the main loop runs a posted handle_command call
RunsCommand ==
    /\ after_queue # <<>>
    /\ after_queue' = Tail(after_queue)
    /\ Head(after_queue).kind = "command"

\* C11: an unrecognized payload is dropped and is not fatal: a notification whose
\* bytes do not decode leaves the link in its wait loop, connected and with its
\* handle, and a dispatched token other than UP, DOWN and SELECT leaves
\* last_command_time, the selection, the slide cursor and the mode unchanged.
C11_UnrecognizedDropped ==
    [][ /\ events' = Append(events, "handler_error") =>
              /\ pc' = "wait"
              /\ connected'
              /\ peripheral' = "open"
        /\ (RunsCommand /\ Head(after_queue).command \notin Commands) =>
              UNCHANGED <<last_command_time, selection, current_slide, slides,
                          presentation_mode>>
      ]_vars

\* C12: a start whose conversion fails ends in navigation mode, with a status
\* text that reflects the failure and with no slide images retained.
C12_FailedStartCleansUp ==
    last_log.load = "error" =>
        /\ ~presentation_mode
        /\ status_bar = "Error loading presentation"
        /\ Images(ui) = <<>>

\* C13: a start whose conversion succeeds with count slides ends in presentation
\* mode with slide index 0 and count slides, whatever an earlier presentation left.
C13_SuccessfulStartResetsCursor ==
    last_log.load = "converted" =>
        /\ presentation_mode
        /\ current_slide = 0
        /\ Len(slides) = last_log.pages

\* C14: ending a presentation returns to navigation mode and retains neither
\* slide images nor a slide count.
C14_EndReleasesSlides ==
    last_log.ended =>
        /\ ~presentation_mode
        /\ Images(ui) = <<>>
        /\ slides = <<>>

\* end_presentation was called by itself
EndCalled ==
    /\ <<last_log, history>>' # <<last_log, history>>
    /\ last_log'.verdict = "none"
    /\ last_log'.ended

\* C15: end_presentation called in navigation mode changes no state: mode,
\* selection, slide cursor, retained slides and status text stay as they were.
C15_EndInNavigationIsNoOp ==
    [][ (EndCalled /\ ~presentation_mode) =>
            UNCHANGED <<presentation_mode, selection, current_slide, slides,
                        slide_images, status_bar>>
      ]_vars

\* a key press was dispatched and passed the debounce
Accepted == Dispatched /\ last_log'.verdict = "accepted"

Min(a, b) == IF a <= b THEN a ELSE b
Max(a, b) == IF a >= b THEN a ELSE b

SelectionValid ==
    list_size >= 1 => /\ Cardinality(selection) = 1
                      /\ selection \subseteq 0..(list_size - 1)

\* C16: with n >= 1 items listed, in navigation mode an accepted DOWN moves the
\* selection from s to min(s + 1, n - 1) and an accepted UP to max(s - 1, 0); in
\* every state exactly one item is selected and its index is within 0..n-1.
C16_SelectionClamped ==
    /\ SelectionValid
    /\ [][ /\ SelectionValid'
           /\ (Accepted /\ ~presentation_mode /\ list_size >= 1) =>
                 /\ key' = "DOWN" =>
                       selection' = {Min(Current(ui) + 1, list_size - 1)}
                 /\ key' = "UP" =>
                       selection' = {Max(Current(ui) - 1, 0)}
         ]_vars

\* the first command ever is an UP, with the first of two items selected
C16_Witness ==
    /\ list_size = 2
    /\ history = <<[time |-> 0, verdict |-> "none"]>>
    /\ key = "UP"
    /\ last_log.verdict = "accepted"
    /\ selection = {0}

\* C17: an accepted UP or DOWN changes only the list selection in navigation mode
\* and only the slide index in presentation mode, and never the mode; an accepted
\* SELECT in presentation mode ends the presentation; an accepted SELECT in
\* navigation mode starts the presentation of the selected item.
C17_RoutingByMode ==
    [][ Accepted =>
          /\ (key' \in {"UP", "DOWN"} /\ ~presentation_mode) =>
                /\ UNCHANGED <<presentation_mode, current_slide, slides,
                               slide_images>>
                /\ last_log'.started = <<>>
                /\ ~last_log'.ended
          /\ (key' \in {"UP", "DOWN"} /\ presentation_mode) =>
                /\ UNCHANGED <<presentation_mode, selection, slides,
                               slide_images>>
                /\ last_log'.started = <<>>
                /\ ~last_log'.ended
          /\ (key' = "SELECT" /\ presentation_mode) =>
                /\ ~presentation_mode'
                /\ last_log'.ended
                /\ last_log'.started = <<>>
                /\ UNCHANGED <<selection, current_slide>>
          /\ (key' = "SELECT" /\ ~presentation_mode) =>
                /\ UNCHANGED selection
                /\ last_log'.started =
                       IF selection = {} THEN <<>> ELSE <<Current(ui)>>
                /\ last_log'.load = "none" <=> selection = {}
      ]_vars

\* DOWN in presentation mode moved the slide index, the second item still selected
C17_Witness ==
    /\ presentation_mode
    /\ key = "DOWN"
    /\ last_log.verdict = "accepted"
    /\ current_slide = 1
    /\ selection = {1}

---------------------------------------------------------------------------
\* Claims about the two contexts together

\* a step of the BLE thread: it moves, or it posts
LinkStep == linkVars' # linkVars \/ Len(after_queue') > Len(after_queue)

\* the step adds one callback at the end of the main loop's queue
Posts ==
    /\ Len(after_queue') = Len(after_queue) + 1
    /\ SubSeq(after_queue', 1, Len(after_queue)) = after_queue

\* C18: last_command_time, the selection, the slide cursor and the mode are
\* written only by the main loop, which runs handle_command for the callback at
\* the head of its queue; a step of the BLE thread leaves every UI field alone and
\* at most posts one callback; connected and the handle change only in steps of
\* the BLE thread.
C18_SingleContextMutation ==
    [][ /\ LinkStep => /\ UNCHANGED uiVars
                       /\ after_queue' = after_queue \/ Posts
        /\ uiVars' # uiVars => /\ after_queue # <<>>
                               /\ after_queue' = Tail(after_queue)
                               /\ UNCHANGED linkVars
        /\ <<connected, peripheral>>' # <<connected, peripheral>> =>
               UNCHANGED uiVars
      ]_vars

\* connected, a posted command was dispatched and another one is waiting
C18_Witness ==
    /\ connected
    /\ peripheral = "open"
    /\ last_command_time # <<>>
    /\ \E i \in 1..Len(after_queue) : after_queue[i].kind = "command"

\* C19: every notification the BLE thread receives is handed to handle_command
\* exactly once, with its own token, in the order received: a received payload
\* is appended to the queue as one callback carrying that payload; nothing else
\* adds a command; the queue changes only by an append or by the main loop taking
\* its head, also while the link disconnects and reconnects; and the main loop
\* runs handle_command once with the token of the callback it takes.
C19_ExactlyOnceInOrder ==
    [][ /\ (LinkStep /\ pc = "wait" /\ pc' = "wait" /\ wait_result' \in Payloads) =>
              after_queue' = Append(after_queue,
                                    [kind |-> "command", command |-> wait_result',
                                     arrived |-> now])
        /\ (Posts /\ after_queue'[Len(after_queue')].kind = "command") =>
              /\ pc = "wait"
              /\ connected
              /\ after_queue'[Len(after_queue')].command = wait_result'
        /\ after_queue' # after_queue =>
              Posts \/ after_queue' = Tail(after_queue)
        /\ RunsCommand =>
              \E conv \in Conversions, render \in Renders :
                  ui' = [handle_command(ui, Head(after_queue).command, now,
                                        conv, render)
                            EXCEPT !.last_log.arrived = Head(after_queue).arrived]
        /\ Dispatched => RunsCommand
      ]_vars

\* two commands were received and the link then failed; DOWN was dispatched
\* first and moved the selection, the other fell in its debounce window
C19_Witness ==
    /\ list_size = 2
    /\ selection = {1}
    /\ ~presentation_mode
    /\ last_log.verdict = "ignored"
    /\ wait_result = "error"
    /\ after_queue = <<>>
    /\ pc = "cooldown"

\* C20: the debounce is decided by arrival time: a command received at least
\* DebounceWindow after the accepted command dispatched before it was received
\* is accepted, however late the main loop runs the two.
C20_DebounceByArrival ==
    [][ ( /\ RunsCommand
          /\ last_log.verdict = "accepted"
          /\ Head(after_queue).arrived - last_log.arrived >= DebounceWindow ) =>
              last_log'.verdict = "accepted"
      ]_vars

\* a key binding ran handle_command
KeyStep == Dispatched /\ after_queue' = after_queue

\* C21: key presses and notifications share one debounce timestamp: a command
\* from either source is ignored exactly when it is dispatched less than
\* DebounceWindow after the last accepted command of either source, and an
\* accepted one sets the timestamp the other source is tested against; a key
\* press can be dispatched in every state of the link and touches neither the
\* link nor the queue.
C21_SharedDebounce ==
    /\ [](ENABLED KeyPress)
    /\ [][ /\ (KeyStep \/ RunsCommand) =>
                 LET due == \/ last_command_time = <<>>
                            \/ now - last_command_time[1] >= DebounceWindow
                 IN  /\ last_log'.verdict = IF due THEN "accepted" ELSE "ignored"
                     /\ last_command_time' =
                            IF due THEN <<now>> ELSE last_command_time
           /\ KeyStep => UNCHANGED <<linkVars, after_queue>>
         ]_vars

\* two commands in all, one from each source: the first was accepted and the
\* second, less than a debounce window later, was ignored
C21_Witness ==
    /\ history = <<[time |-> 0, verdict |-> "none"],
                   [time |-> 0, verdict |-> "accepted"]>>
    /\ last_log.verdict = "ignored"
    /\ last_log.time = 1
    /\ key # "none"
    /\ wait_result \in Commands
    /\ after_queue = <<>>

\* C22: an accepted SELECT in navigation mode with no item selected only sets
\* the debounce timestamp: the mode stays navigation, nothing is converted, and
\* selection, slide cursor, retained slides and status text are unchanged; the
\* mode becomes presentation only in a start on a selected item.
C22_SelectWithoutSelection ==
    [][ /\ (Accepted /\ key' = "SELECT" /\ ~presentation_mode /\ selection = {}) =>
              /\ last_command_time' = <<now>>
              /\ last_log'.started = <<>>
              /\ last_log'.load = "none"
              /\ UNCHANGED <<presentation_mode, selection, current_slide, slides,
                             slide_images, status_bar>>
        /\ (~presentation_mode /\ presentation_mode') =>
              /\ selection # {}
              /\ last_log'.started = <<Current(ui)>>
      ]_vars

\* SELECT was accepted with an empty list
C22_Witness ==
    /\ list_size = 0
    /\ selection = {}
    /\ key = "SELECT"
    /\ last_log.verdict = "accepted"
    /\ last_command_time = <<last_log.time>>
    /\ ~presentation_mode

---------------------------------------------------------------------------
\* Recovery of the link (checked under SpecLinkFair)

\* a connect attempt, a discovery step or the subscription write fails, or the
\* transport raises in the wait loop
TransportFailures == {"connect_public_fail", "service_not_found",
                      "characteristic_not_found", "write_fail", "wait_error"}
TransportFails ==
    /\ Len(events') > Len(events)
    /\ events'[Len(events')] \in TransportFailures

Active == pc = "wait" /\ connected

\* C23: if from some point on no connect attempt, discovery step or subscription
\* write fails and the transport raises no error, the BLE thread eventually is in
\* the wait loop, connected, and stays there; and the wait loop is entered only
\* after a successful connect followed by a successful subscription write on the
\* handle that connect opened.
C23_RecoveryLiveness ==
    /\ []<><<TransportFails>>_vars \/ <>[]Active
    /\ [](pc = "wait" =>
            /\ events # <<>>
            /\ events[Len(events)] = "write_ok"
            /\ Count("connected") = 1
            /\ Count("handle_cleared") = 0
            /\ Disconnects = 0
            /\ peripheral = "open")

=============================================================================
